---- MODULE Spec2Model ----
(***************************************************************************)
(* State-machine model of stdatm.atmosphere.Atmosphere: the lazily cached  *)
(* ISA profile of an instance, its seven speed slots with their setters    *)
(* and getters, the generic inversion to true airspeed on a deep copy, and *)
(* the module-level SEA_LEVEL_ATMOSPHERE instance.                         *)
(*                                                                         *)
(* Numbers.  Python floats are modelled as fixed-point integers, every     *)
(* operation truncating where IEEE arithmetic rounds:                      *)
(*   altitude m | temperature 0.01 K | pressures Pa | density g/m3         *)
(*   speeds cm/s | mach 1e-4 | dynamic viscosity 1e-9 Pa.s                 *)
(*   kinematic viscosity 1e-8 m2/s | unitary Reynolds 1e3 /m               *)
(* NaN is a distinguished element that every operation propagates.         *)
(*                                                                         *)
(* Arrays.  A numpy value is [shape, data] with data in row-major order;   *)
(* a Python scalar and a 0-d array both have shape << >>.  None is the     *)
(* record with no data.                                                    *)
(***************************************************************************)
EXTENDS Integers, Sequences, FiniteSets, TLC

\* ------------------------------------------------------------------ numbers

\* float('nan'): an integer below every value the fixed-point quantities take
NaN == 0 - 2000000000

Max(a, b) == IF a >= b THEN a ELSE b

Min(a, b) == IF a <= b THEN a ELSE b

Abs(a) == IF a >= 0 THEN a ELSE 0 - a

\* floor(sqrt(n)) for n >= 0, by bisection on [lo, hi)
RECURSIVE SqrtSearch(_, _, _)
SqrtSearch(n, lo, hi) ==
    IF hi - lo <= 1 THEN lo
    ELSE LET mid == (lo + hi) \div 2
         IN  IF mid * mid <= n THEN SqrtSearch(n, mid, hi) ELSE SqrtSearch(n, lo, mid)

ISqrt(n) == SqrtSearch(n, 0, Min(n, 46340) + 1)

\* ------------------------------------------------------------------- arrays

None == [shape |-> << >>, data |-> << >>]

Scalar(x) == [shape |-> << >>, data |-> <<x>>]

Arr(shape, data) == [shape |-> shape, data |-> data]

RECURSIVE Prod(_, _)
Prod(s, i) == IF i > Len(s) THEN 1 ELSE s[i] * Prod(s, i + 1)

\* np.size
Size(s) == Prod(s, 1)

Stride(s, i) == Prod(s, i + 1)

\* a shape padded on the left with 1s to rank n (numpy aligns shapes on the right)
Pad(s, n) == [i \in 1..n |-> IF i <= n - Len(s) THEN 1 ELSE s[i - (n - Len(s))]]

\* whether numpy can broadcast shapes s and t against each other
Broadcastable(s, t) ==
    LET n == Max(Len(s), Len(t))
        ps == Pad(s, n)
        pt == Pad(t, n)
    IN  \A i \in 1..n : ps[i] = pt[i] \/ ps[i] = 1 \/ pt[i] = 1

\* the shape of a binary elementwise operation on shapes s and t
BroadcastShape(s, t) ==
    LET n == Max(Len(s), Len(t))
        ps == Pad(s, n)
        pt == Pad(t, n)
    IN  [i \in 1..n |-> IF ps[i] = 1 THEN pt[i] ELSE ps[i]]

\* whether np.broadcast_to(a, t) accepts a.shape = s
CanBroadcastTo(s, t) ==
    /\ Len(s) <= Len(t)
    /\ LET ps == Pad(s, Len(t))
       IN  \A i \in 1..Len(t) : ps[i] = t[i] \/ ps[i] = 1

\* offset in an array of (padded) shape ps of element k of its broadcast to shape t
RECURSIVE SrcIndex(_, _, _, _)
SrcIndex(ps, t, k, i) ==
    IF i > Len(t) THEN 0
    ELSE (IF ps[i] = 1 THEN 0 ELSE ((k \div Stride(t, i)) % t[i]) * Stride(ps, i))
         + SrcIndex(ps, t, k, i + 1)

\* np.broadcast_to(a, t), for CanBroadcastTo(a.shape, t)
BroadcastTo(a, t) ==
    IF a.shape = t THEN a
    ELSE LET ps == Pad(a.shape, Len(t))
         IN  [shape |-> t,
              data |-> [k \in 1..Size(t) |-> a.data[1 + SrcIndex(ps, t, k - 1, 1)]]]

\* a binary elementwise operation with numpy broadcasting
Map2(Op(_, _), a, b) ==
    LET t == BroadcastShape(a.shape, b.shape)
        x == BroadcastTo(a, t).data
        y == BroadcastTo(b, t).data
    IN  [shape |-> t, data |-> [k \in 1..Size(t) |-> Op(x[k], y[k])]]

\* a unary elementwise operation
Map1(Op(_), a) == [shape |-> a.shape, data |-> [k \in 1..Len(a.data) |-> Op(a.data[k])]]

\* np.ravel
Ravel(a) == [shape |-> <<Len(a.data)>>, data |-> a.data]

\* np.reshape(a, shape), sizes agreeing
Reshape(a, shape) == [shape |-> shape, data |-> a.data]

\* Body with the value of an expression held in a local variable
With(value, Body(_)) == Body(value)

\* ------------------------------------------- stdatm.state_parameters (ISA)

\* compute_temperature, one altitude (m) and offset (K) -> 0.01 K:
\* 288.15 K - 6.5 K/km up to the tropopause, constant above, plus the offset
TemperatureAt(h, dt) == 28815 - (65 * Min(h, 11000)) \div 100 + 100 * dt

\* compute_pressure, one altitude (m) -> Pa: p0 * (T/T0)^5.25 up to the
\* tropopause ((T/T0)^5.2559 in ISA), p11 * 1/(1 + z + z^2/2) above (exp(-z))
PressureAt(h) ==
    LET x == (TemperatureAt(h, 0) * 10000) \div 28815
        x2 == (x * x) \div 10000
        x5 == (((x2 * x2) \div 10000) * x) \div 10000
        r == ISqrt(ISqrt(x * 10000) * 10000)
        p == (101325 * ((x5 * r) \div 10000)) \div 10000
        z == ((Max(h, 11000) - 11000) * 10000) \div 6342
    IN  (p * 10000) \div (10000 + z + (z * z) \div 20000)

\* compute_density, Pa and 0.01 K -> g/m3: p / (287.05 * T)
DensityOf(p, t) == (((p * 10000) \div t) * 1000) \div 28705

\* compute_speed_of_sound, 0.01 K -> cm/s: sqrt(1.4 * 287.05 * T)
SpeedOfSoundOf(t) == ISqrt(40187 * t)

\* compute_dynamic_viscosity, 0.01 K -> 1e-9 Pa.s: Sutherland's law
\* 1.458e-6 * T^1.5 / (T + 110.4)
DynamicViscosityOf(t) == (1458 * ((t * ISqrt(t * 100)) \div 10000) * 100) \div (t + 11040)

\* compute_kinematic_viscosity, 1e-9 Pa.s and g/m3 -> 1e-8 m2/s: mu / rho
KinematicViscosityOf(mu, rho) == (mu * 100) \div rho

compute_temperature(altitude, delta_t) == Map1(LAMBDA h : TemperatureAt(h, delta_t), altitude)

compute_pressure(altitude) == Map1(PressureAt, altitude)

compute_density(pressure, temperature) == Map2(DensityOf, pressure, temperature)

compute_speed_of_sound(temperature) == Map1(SpeedOfSoundOf, temperature)

compute_dynamic_viscosity(temperature) == Map1(DynamicViscosityOf, temperature)

compute_kinematic_viscosity(dynamic_viscosity, density) == Map2(KinematicViscosityOf, dynamic_viscosity, density)

\* ------------------------------------------------- speed formulas (floats)

\* true_airspeed / speed_of_sound, cm/s and cm/s -> 1e-4
TasOverSos(tas, a) == IF tas = NaN THEN NaN ELSE (tas * 10000) \div a

\* mach * speed_of_sound, 1e-4 and cm/s -> cm/s
MachTimesSos(m, a) == IF m = NaN THEN NaN ELSE (m * a) \div 10000

\* np.sqrt(SEA_LEVEL_ATMOSPHERE.density / density), g/m3 and g/m3 -> 1e-4
SqrtDensityRatio(rho0, rho) == ISqrt(((rho0 * 100000) \div rho) * 1000)

\* equivalent_airspeed * sqrt(rho0 / rho)
EasTimesRatio(eas, sr) == IF eas = NaN THEN NaN ELSE (eas * sr) \div 10000

\* true_airspeed / sqrt(rho0 / rho)
TasOverRatio(tas, sr) == IF tas = NaN THEN NaN ELSE (tas * 10000) \div sr

\* unitary_reynolds * kinematic_viscosity, 1e3 /m and 1e-8 m2/s -> cm/s
ReTimesNu(re, nu) == IF re = NaN THEN NaN ELSE (re * nu) \div 1000

\* true_airspeed / kinematic_viscosity
TasOverNu(tas, nu) == IF tas = NaN THEN NaN ELSE (tas * 1000) \div nu

\* np.sqrt(dynamic_pressure / 0.7 / pressure), Pa and Pa -> 1e-4; nan below zero
SqrtQOverP(q, p) ==
    IF q = NaN \/ q < 0 THEN NaN
    ELSE ISqrt((((q * 10000) \div p) * 100000) \div 7)

\* 0.7 * mach**2 * pressure, 1e-4 and Pa -> Pa
QOfMach(m, p) == IF m = NaN THEN NaN ELSE (((((m * m) \div 10000) * 7) \div 100) * p) \div 1000

\* x ** 3.5 for x in 1e-4, as x^3 * sqrt(x)
Pow35(x) == ((((((x * x) \div 10000) * x) \div 10000)) * ISqrt(x * 10000)) \div 10000

\* _compute_subsonic_impact_pressure: p * ((1 + 0.2 * mach**2) ** 3.5 - 1)
SubsonicImpactPressure(m, p) ==
    LET x == 10000 + (2 * ((m * m) \div 10000)) \div 10
    IN  (((p \div 10) * (Pow35(x) - 10000)) \div 1000)

\* 166.92158 * mach**7 / (7 * mach**2 - 1) ** 2.5 in 1e-3, for mach in 1e-4
RayleighRatio(m) ==
    LET m2 == (m * m) \div 10000
        m4 == (m2 * m2) \div 10000
        m6 == ((m4 \div 10) * m2) \div 1000
        m7 == ((m6 \div 10) * (m \div 10)) \div 100
        d == 7 * m2 - 10000
        d2 == ((d \div 10) * (d \div 10)) \div 100
        sd == ISqrt(d * 100) * 10
        d25 == ((d2 \div 1000) * (sd \div 10)) \div 100
    IN  (m7 * 1669) \div d25

\* _compute_supersonic_impact_pressure: p * (166.92158 * mach**7 / (7 * mach**2 - 1) ** 2.5 - 1)
SupersonicImpactPressure(m, p) == (p * (RayleighRatio(m) - 1000)) \div 1000

\* the largest x in [lo, hi) with F(x) <= y, F nondecreasing and F(lo) <= y
RECURSIVE InverseSearch(_, _, _, _)
InverseSearch(F(_), y, lo, hi) ==
    IF hi - lo <= 1 THEN lo
    ELSE LET mid == (lo + hi) \div 2
         IN  IF F(mid) <= y THEN InverseSearch(F, y, mid, hi) ELSE InverseSearch(F, y, lo, mid)

\* x ** 7 for x in 1e-4 between 1 and 2
Pow7(x) ==
    LET x2 == (x * x) \div 10000
        x3 == (x2 * x) \div 10000
        x4 == (x2 * x2) \div 10000
    IN  ((x4 \div 10) * x3) \div 1000

\* _compute_cas_low_speed: a0 * sqrt(5 * ((impact_pressure / p0 + 1) ** (1 / 3.5) - 1));
\* nan where the base of the power or the argument of the root is negative.
\* y ** (1 / 3.5) is the z with z ** 7 = y ** 2, looked for up to z = 2, which
\* is beyond the values the getter keeps (those with cas <= a0, z <= 1.2)
CasLowSpeed(ip, a0, p0) ==
    IF ip = NaN \/ ip < 0 THEN NaN
    ELSE LET y == ((ip * 1000) \div p0) * 10 + 10000
             y2 == ((y \div 10) * (y \div 10)) \div 100
             z == InverseSearch(Pow7, y2, 10000, 20001)
         IN  (a0 * ISqrt(5 * (z - 10000) * 10000)) \div 10000

\* _compute_cas_high_speed, one element: the root of _equation_cas_high_speed that
\* fsolve returns, which is the cas with
\* impact_pressure / p0 + 1 = 166.92158 * (cas/a0)**7 / (7 * (cas/a0)**2 - 1) ** 2.5
CasHighSpeed(ip, a0, p0) ==
    LET y == (ip * 1000) \div p0 + 1000
        mc == InverseSearch(RayleighRatio, y, 10000, 20001)
    IN  (mc * a0) \div 10000

\* ------------------------------------------------------------- Atmosphere

ProfileNames == {"_temperature", "_pressure", "_density", "_speed_of_sound",
                 "_dynamic_viscosity", "_kinematic_viscosity"}

\* the seven speed attributes, in the order _reset_speeds clears them
SpeedNames == {"_mach", "_true_airspeed", "_equivalent_airspeed", "_unitary_reynolds",
               "_dynamic_pressure", "_impact_pressure", "_calibrated_airspeed"}

\* Atmosphere.__init__; ncompute counts the calls of each compute_* function
\* made for this instance (a history field, not an attribute)
Atmosphere(altitude, delta_t, altitude_in_feet) ==
    [_delta_t |-> delta_t,
     _altitude |-> IF altitude_in_feet
                   THEN Map1(LAMBDA h : (h * 3048) \div 10000, altitude)
                   ELSE altitude,
     _temperature |-> None, _pressure |-> None, _density |-> None,
     _speed_of_sound |-> None, _dynamic_viscosity |-> None,
     _kinematic_viscosity |-> None,
     _mach |-> None, _equivalent_airspeed |-> None, _true_airspeed |-> None,
     _unitary_reynolds |-> None, _dynamic_pressure |-> None,
     _impact_pressure |-> None, _calibrated_airspeed |-> None,
     ncompute |-> [n \in ProfileNames |-> 0]]

\* Atmosphere.get_altitude(): the altitude in feet
get_altitude(self) == Map1(LAMBDA h : (h * 10000) \div 3048, self._altitude)

\* the delta_t setter: self._delta_t = float(value)
delta_t_setter(self, value) == [self EXCEPT !._delta_t = value]

Computed(self, name, value) == [self EXCEPT ![name] = value, !.ncompute[name] = @ + 1]

temperature(self) ==
    IF self._temperature = None
    THEN Computed(self, "_temperature", compute_temperature(self._altitude, self._delta_t))
    ELSE self

pressure(self) ==
    IF self._pressure = None
    THEN Computed(self, "_pressure", compute_pressure(self._altitude))
    ELSE self

density(self) ==
    IF self._density = None
    THEN With(temperature(pressure(self)), LAMBDA s :
            Computed(s, "_density", compute_density(s._pressure, s._temperature)))
    ELSE self

speed_of_sound(self) ==
    IF self._speed_of_sound = None
    THEN With(temperature(self), LAMBDA s :
            Computed(s, "_speed_of_sound", compute_speed_of_sound(s._temperature)))
    ELSE self

dynamic_viscosity(self) ==
    IF self._dynamic_viscosity = None
    THEN With(temperature(self), LAMBDA s :
            Computed(s, "_dynamic_viscosity", compute_dynamic_viscosity(s._temperature)))
    ELSE self

kinematic_viscosity(self) ==
    IF self._kinematic_viscosity = None
    THEN With(density(dynamic_viscosity(self)), LAMBDA s :
            Computed(s, "_kinematic_viscosity",
                     compute_kinematic_viscosity(s._dynamic_viscosity, s._density)))
    ELSE self

\* the getter of profile attribute name
ProfileGetter(name, self) ==
    CASE name = "_temperature" -> temperature(self)
      [] name = "_pressure" -> pressure(self)
      [] name = "_density" -> density(self)
      [] name = "_speed_of_sound" -> speed_of_sound(self)
      [] name = "_dynamic_viscosity" -> dynamic_viscosity(self)
      [] name = "_kinematic_viscosity" -> kinematic_viscosity(self)

\* _reset_speeds without its line for _true_airspeed
ResetSpeedsKeepingTrueAirspeed(self) ==
    [self EXCEPT !._mach = None, !._equivalent_airspeed = None,
                 !._unitary_reynolds = None, !._dynamic_pressure = None,
                 !._impact_pressure = None, !._calibrated_airspeed = None]

\* _reset_speeds clearing, with the speeds, the speed of sound they were derived with
ResetSpeedsAndSpeedOfSound(self) ==
    [self EXCEPT !._mach = None, !._true_airspeed = None, !._equivalent_airspeed = None,
                 !._unitary_reynolds = None, !._dynamic_pressure = None,
                 !._impact_pressure = None, !._calibrated_airspeed = None,
                 !._speed_of_sound = None]

\* _reset_speeds without its line for _mach
ResetSpeedsKeepingMach(self) ==
    [self EXCEPT !._true_airspeed = None, !._equivalent_airspeed = None,
                 !._unitary_reynolds = None, !._dynamic_pressure = None,
                 !._impact_pressure = None, !._calibrated_airspeed = None]

\* Atmosphere._reset_speeds
_reset_speeds(self) ==
    [self EXCEPT !._mach = None, !._true_airspeed = None, !._equivalent_airspeed = None,
                 !._unitary_reynolds = None, !._dynamic_pressure = None,
                 !._impact_pressure = None, !._calibrated_airspeed = None]

\* an _adapt_shape that compares the numbers of dimensions only
AdaptShapeRaisesOnRank(self, value) ==
    /\ Size(value.shape) > 1
    /\ Len(value.shape) # Len(get_altitude(self).shape)

\* whether Atmosphere._adapt_shape(value) raises RuntimeError
AdaptShapeRaises(self, value) ==
    /\ Size(value.shape) > 1
    /\ ~Broadcastable(value.shape, get_altitude(self).shape)

\* Atmosphere._adapt_shape(value), when it does not raise
_adapt_shape(self, value) ==
    IF Size(value.shape) > 1
    THEN LET expected_shape == BroadcastShape(value.shape, get_altitude(self).shape)
         IN  IF value.shape # expected_shape THEN BroadcastTo(value, expected_shape)
             ELSE value
    ELSE value

\* what the memory of a new np.empty_like array holds where no call has chosen
\* it: a value apart from every number and from nan, so that a read of it shows
Unread == NaN - 1

\* A call in progress: the instance it runs on, SEA_LEVEL_ATMOSPHERE, and the
\* exception raised so far ("none": the statements that follow still run).
\* inverted is set where the call reaches self._compute_true_airspeed.  empty
\* is what the elements of an array made by np.empty_like hold until they are
\* assigned (the allocator's choice: see ImpactRead).  high_speed is the call
\* of _compute_cas_high_speed the calibrated_airspeed getter has made, if any.
NoHighSpeed == [impact_pressure |-> << >>, x0 |-> << >>]

Call(self, sea) ==
    [self |-> self, sea |-> sea, err |-> "none", inverted |-> FALSE, empty |-> Unread,
     high_speed |-> NoHighSpeed]

Raise(c, err) == [c EXCEPT !.err = err]

\* a setter that calls _adapt_shape before it calls _reset_speeds
SpeedSetterValidatingFirst(name, c, value) ==
    IF value = None THEN [c EXCEPT !.self = _reset_speeds(c.self)]
    ELSE IF AdaptShapeRaises(c.self, value) THEN Raise(c, "RuntimeError")
    ELSE [c EXCEPT !.self = [_reset_speeds(c.self) EXCEPT ![name] = _adapt_shape(c.self, value)]]

\* the setter of speed attribute name: _reset_speeds, then _adapt_shape and the store
SpeedSetter(name, c, value) ==
    With(_reset_speeds(c.self), LAMBDA s :
        IF value = None THEN [c EXCEPT !.self = s]
        ELSE IF AdaptShapeRaises(s, value) THEN Raise([c EXCEPT !.self = s], "RuntimeError")
        ELSE [c EXCEPT !.self = [s EXCEPT ![name] = _adapt_shape(s, value)]])

\* the true_airspeed getter; the two branches that call _compute_true_airspeed
\* are taken by the actions below, which run the solver step by step
true_airspeed(c) ==
    IF c.self._true_airspeed # None THEN c
    ELSE IF c.self._mach # None
    THEN With(speed_of_sound(c.self), LAMBDA s :
            [c EXCEPT !.self = [s EXCEPT !._true_airspeed =
                                   Map2(MachTimesSos, s._mach, s._speed_of_sound)]])
    ELSE IF c.self._equivalent_airspeed # None
    THEN With(density(c.sea), LAMBDA sea0 : With(density(c.self), LAMBDA s :
            [c EXCEPT !.sea = sea0,
                      !.self = [s EXCEPT !._true_airspeed =
                         Map2(EasTimesRatio, s._equivalent_airspeed,
                              Map2(SqrtDensityRatio, sea0._density, s._density))]]))
    ELSE IF c.self._unitary_reynolds # None
    THEN With(kinematic_viscosity(c.self), LAMBDA s :
            [c EXCEPT !.self = [s EXCEPT !._true_airspeed =
                         Map2(ReTimesNu, s._unitary_reynolds, s._kinematic_viscosity)]])
    ELSE IF c.self._dynamic_pressure # None
    THEN With(speed_of_sound(pressure(c.self)), LAMBDA s :
            [c EXCEPT !.self = [s EXCEPT !._true_airspeed =
                         Map2(MachTimesSos,
                              Map2(SqrtQOverP, s._dynamic_pressure, s._pressure),
                              s._speed_of_sound)]])
    ELSE IF c.self._impact_pressure # None \/ c.self._calibrated_airspeed # None
    THEN [c EXCEPT !.inverted = TRUE]
    ELSE c

\* what follows a read of self.true_airspeed runs only if the read returned
Returned(c) == c.err = "none" /\ ~c.inverted

\* a mach getter that assigns its slot whatever the slot holds, as the
\* dynamic_pressure getter does
MachAlwaysRecomputed(c) ==
    With(true_airspeed(c), LAMBDA c1 :
        IF Returned(c1) /\ c1.self._true_airspeed # None
        THEN With(speed_of_sound(c1.self), LAMBDA s :
                [c1 EXCEPT !.self = [s EXCEPT !._mach =
                            Map2(TasOverSos, s._true_airspeed, s._speed_of_sound)]])
        ELSE c1)

\* the mach getter
mach(c) ==
    IF c.self._mach # None THEN c
    ELSE With(true_airspeed(c), LAMBDA c1 :
            IF Returned(c1) /\ c1.self._true_airspeed # None
            THEN With(speed_of_sound(c1.self), LAMBDA s :
                    [c1 EXCEPT !.self = [s EXCEPT !._mach =
                                Map2(TasOverSos, s._true_airspeed, s._speed_of_sound)]])
            ELSE c1)

\* an equivalent_airspeed getter that divides whatever self.true_airspeed
\* returns, None included
EquivalentAirspeedUnchecked(c) ==
    IF c.self._equivalent_airspeed # None THEN c
    ELSE With(true_airspeed(c), LAMBDA c1 :
            IF ~Returned(c1) THEN c1
            ELSE IF c1.self._true_airspeed = None THEN Raise(c1, "TypeError")
            ELSE With(density(c1.sea), LAMBDA sea0 : With(density(c1.self), LAMBDA s :
                    [c1 EXCEPT !.sea = sea0,
                               !.self = [s EXCEPT !._equivalent_airspeed =
                                  Map2(TasOverRatio, s._true_airspeed,
                                       Map2(SqrtDensityRatio, sea0._density, s._density))]])))

\* an equivalent_airspeed getter that also keeps its result on
\* SEA_LEVEL_ATMOSPHERE, as the true airspeed the value is at sea level
EquivalentAirspeedKeptAtSeaLevel(c) ==
    IF c.self._equivalent_airspeed # None THEN c
    ELSE With(true_airspeed(c), LAMBDA c1 :
            IF Returned(c1) /\ c1.self._true_airspeed # None
            THEN With(density(c1.sea), LAMBDA sea0 : With(density(c1.self), LAMBDA s :
                    With(Map2(TasOverRatio, s._true_airspeed,
                              Map2(SqrtDensityRatio, sea0._density, s._density)),
                         LAMBDA eas :
                            [c1 EXCEPT !.sea = [sea0 EXCEPT !._true_airspeed = eas],
                                       !.self = [s EXCEPT !._equivalent_airspeed = eas]])))
            ELSE c1)

\* the equivalent_airspeed getter
equivalent_airspeed(c) ==
    IF c.self._equivalent_airspeed # None THEN c
    ELSE With(true_airspeed(c), LAMBDA c1 :
            IF Returned(c1) /\ c1.self._true_airspeed # None
            THEN With(density(c1.sea), LAMBDA sea0 : With(density(c1.self), LAMBDA s :
                    [c1 EXCEPT !.sea = sea0,
                               !.self = [s EXCEPT !._equivalent_airspeed =
                                  Map2(TasOverRatio, s._true_airspeed,
                                       Map2(SqrtDensityRatio, sea0._density, s._density))]]))
            ELSE c1)

\* a unitary_reynolds getter that goes through self.mach, as the
\* dynamic_pressure getter does, and not through self.true_airspeed
UnitaryReynoldsFromMach(c) ==
    IF c.self._unitary_reynolds # None THEN c
    ELSE With(mach(c), LAMBDA c1 :
            IF Returned(c1) /\ c1.self._mach # None
            THEN With(kinematic_viscosity(speed_of_sound(c1.self)), LAMBDA s :
                    [c1 EXCEPT !.self = [s EXCEPT !._unitary_reynolds =
                                Map2(TasOverNu,
                                     Map2(MachTimesSos, s._mach, s._speed_of_sound),
                                     s._kinematic_viscosity)]])
            ELSE c1)

\* the unitary_reynolds getter
unitary_reynolds(c) ==
    IF c.self._unitary_reynolds # None THEN c
    ELSE With(true_airspeed(c), LAMBDA c1 :
            IF Returned(c1) /\ c1.self._true_airspeed # None
            THEN With(kinematic_viscosity(c1.self), LAMBDA s :
                    [c1 EXCEPT !.self = [s EXCEPT !._unitary_reynolds =
                                Map2(TasOverNu, s._true_airspeed, s._kinematic_viscosity)]])
            ELSE c1)

\* a dynamic_pressure getter that assigns its slot only while it is None, as
\* the mach getter does
DynamicPressureCached(c) ==
    IF c.self._dynamic_pressure # None THEN c
    ELSE With(mach(c), LAMBDA c1 :
            IF Returned(c1) /\ c1.self._mach # None
            THEN With(pressure(c1.self), LAMBDA s :
                    [c1 EXCEPT !.self = [s EXCEPT !._dynamic_pressure =
                                            Map2(QOfMach, s._mach, s._pressure)]])
            ELSE c1)

\* the dynamic_pressure getter
dynamic_pressure(c) ==
    With(mach(c), LAMBDA c1 :
        IF Returned(c1) /\ c1.self._mach # None
        THEN With(pressure(c1.self), LAMBDA s :
                [c1 EXCEPT !.self = [s EXCEPT !._dynamic_pressure =
                                        Map2(QOfMach, s._mach, s._pressure)]])
        ELSE c1)

\* one element of idx_subsonic = mach <= 1.0 (a comparison with nan is False)
idx_subsonic(m) == m # NaN /\ m <= 10000

\* one element of idx_supersonic = mach > 1
idx_supersonic(m) == m # NaN /\ m > 10000

\* one element of value in the impact_pressure getter: empty as np.empty_like
\* made it, then assigned through idx_subsonic, then through idx_supersonic
ImpactPressureAt(m, p, empty) ==
    With(IF idx_subsonic(m) THEN SubsonicImpactPressure(m, p) ELSE empty, LAMBDA value :
        IF idx_supersonic(m) THEN SupersonicImpactPressure(m, p) ELSE value)

\* the impact_pressure getter
impact_pressure(c) ==
    With(mach(c), LAMBDA c1 :
        IF Returned(c1) /\ c1.self._mach # None
        THEN With(pressure(c1.self), LAMBDA s :
                IF s._pressure.shape # s._mach.shape
                   /\ ~CanBroadcastTo(s._pressure.shape, s._mach.shape)
                THEN Raise([c1 EXCEPT !.self = s], "ValueError")
                ELSE [c1 EXCEPT !.self = [s EXCEPT !._impact_pressure =
                         Map2(LAMBDA m, p : ImpactPressureAt(m, p, c1.empty), s._mach,
                              BroadcastTo(s._pressure, s._mach.shape))]])
        ELSE c1)

\* one element of idx_high_speed = cas > SEA_LEVEL_ATMOSPHERE.speed_of_sound
idx_high_speed(cas, a0) == cas # NaN /\ cas > a0

\* one element of cas in the calibrated_airspeed getter: the low-speed value,
\* replaced through idx_high_speed by the root fsolve returns
CalibratedAirspeedAt(ip, a0, p0) ==
    LET cas == CasLowSpeed(ip, a0, p0)
    IN  IF idx_high_speed(cas, a0) THEN CasHighSpeed(ip, a0, p0) ELSE cas

\* impact_pressure[idx_high_speed], on the raveled elements
HighSpeedElements(values, a0, p0) ==
    SelectSeq(values, LAMBDA ip : idx_high_speed(CasLowSpeed(ip, a0, p0), a0))

\* a _compute_cas_high_speed that starts fsolve from the low-speed values of
\* the elements it is given (values)
CasHighSpeedFromEstimate(values, a0, p0) ==
    [impact_pressure |-> values,
     x0 |-> [k \in 1..Len(values) |-> CasLowSpeed(values[k], a0, p0)]]

\* the call _compute_cas_high_speed(impact_pressure) as it starts fsolve,
\* values being the impact pressures it is given:
\* x0 = SEA_LEVEL_ATMOSPHERE.speed_of_sound * np.ones_like(impact_pressure)
_compute_cas_high_speed(values, a0, p0) ==
    [impact_pressure |-> values,
     x0 |-> [k \in 1..Len(values) |-> a0]]

\* the call of _compute_cas_high_speed made where np.any(idx_high_speed)
HighSpeedCall(high, a0, p0) ==
    IF high = << >> THEN NoHighSpeed ELSE _compute_cas_high_speed(high, a0, p0)

\* the calibrated_airspeed getter
calibrated_airspeed(c) ==
    With(impact_pressure(c), LAMBDA c1 :
        IF Returned(c1) /\ c1.self._impact_pressure # None
        THEN With(pressure(speed_of_sound(c1.sea)), LAMBDA sea0 :
                [c1 EXCEPT !.sea = sea0,
                           !.high_speed =
                              HighSpeedCall(HighSpeedElements(c1.self._impact_pressure.data,
                                                              sea0._speed_of_sound.data[1],
                                                              sea0._pressure.data[1]),
                                            sea0._speed_of_sound.data[1],
                                            sea0._pressure.data[1]),
                           !.self._calibrated_airspeed =
                              Map1(LAMBDA ip : CalibratedAirspeedAt(ip,
                                                  sea0._speed_of_sound.data[1],
                                                  sea0._pressure.data[1]),
                                   c1.self._impact_pressure)])
        ELSE c1)

\* the getter of speed attribute name
SpeedGetter(name, c) ==
    CASE name = "_mach" -> mach(c)
      [] name = "_true_airspeed" -> true_airspeed(c)
      [] name = "_equivalent_airspeed" -> equivalent_airspeed(c)
      [] name = "_unitary_reynolds" -> unitary_reynolds(c)
      [] name = "_dynamic_pressure" -> dynamic_pressure(c)
      [] name = "_impact_pressure" -> impact_pressure(c)
      [] name = "_calibrated_airspeed" -> calibrated_airspeed(c)

\* ---------------------------------------------------- _compute_true_airspeed

\* the most evaluations of its function fsolve makes before it gives up
MaxProbes == 2

\* x0 = 500.0 * np.ones_like(value), cm/s
X0(n) == Arr(<<n>>, [k \in 1..n |-> 50000])

\* the iterates fsolve may try after x0 (MINPACK chooses them), cm/s
TasIterates == {25000}

Iterates(n) == {Arr(<<n>>, [k \in 1..n |-> t]) : t \in TasIterates}

\* fsolve stops at an iterate whose residual vanishes
Converged(residual) == \A k \in 1..Len(residual.data) : residual.data[k] = 0

\* value - _compute_parameter(tas, atm, shape)
Residual(value, parameter) ==
    Map2(LAMBDA v, f : IF v = NaN \/ f = NaN THEN NaN ELSE v - f, value, parameter)

\* --------------------------------------------------------------- the state

VARIABLES atm, sea, solver, last, written, threads

vars == <<atm, sea, solver, last, written, threads>>

\* atm      the Atmosphere instance the caller works on
\* sea      SEA_LEVEL_ATMOSPHERE
\* solver   the call of _compute_true_airspeed in progress on atm, if any:
\*          its arguments, solver_atm (a sequence holding the working copy
\*          while it exists), fsolve's last iterate x, its residual and the
\*          number nfev of evaluations made.  Every getter reaches the call
\*          through self.true_airspeed before it changes anything, so which
\*          getter is being served shows only when the call has returned
\*          (Resume)
\* last     the last call that returned or raised: op ("set", "get", ...), the
\*          attribute and argument of a setter call or of a call that raised,
\*          the exception, and whether the root the call's inversion returned
\*          had converged
\* written  the attribute and value of the last setter call that stored one,
\*          the number of calls of _compute_true_airspeed made since, the
\*          root the call has returned, and whether fsolve had converged on it
\* threads  where two threads that share atm are in their calls (see
\*          SpecThreads); NoThreads where one caller makes whole calls

Idle ==
    [phase |-> "idle", parameter_name |-> "none", value |-> None,
     shape |-> << >>, solver_atm |-> << >>, x |-> None, residual |-> None, nfev |-> 0,
     converged |-> TRUE]

\* the most calls of _compute_true_airspeed followed between two writes
MaxInversions == 2

\* a thread that is in no call
NotCalling == [pc |-> "idle", name |-> "none", value |-> None, i |-> 0,
               ret |-> "none", branch |-> "none", tas |-> None]

NoThreads ==
    [locked |-> TRUE, holder |-> "none", writes |-> 0,
     writer |-> NotCalling, reader |-> NotCalling]

NotWritten ==
    [name |-> "none", value |-> None, inversions |-> 0, root |-> None, converged |-> TRUE]

Returns(op, name, arg, err, converged) ==
    [op |-> op, name |-> name, arg |-> arg, err |-> err, converged |-> converged]

\* what a getter call leaves in last
GetReturns(name, c, converged) ==
    Returns("get", IF c.err = "none" THEN "none" ELSE name, None, c.err, converged)

\* the altitudes an instance is made with: (altitude, altitude_in_feet)
Altitudes ==
    {<<Scalar(30000), TRUE>>,
     <<Arr(<<3>>, <<0, 1000, 35000>>), TRUE>>,
     <<Arr(<<2>>, <<0, 10000>>), FALSE>>}

\* the temperature offsets, K
DeltaTs == {0, 10}

\* the values the setter of each speed attribute is called with
Values(name) ==
    CASE name = "_mach" ->
           {Scalar(8000), Arr(<<3>>, <<10000, 15000, 20000>>),
            Arr(<<2, 3>>, <<5000, 8000, 10000, 10001, 12000, 16000>>)}
      [] name = "_true_airspeed" ->
           {Scalar(25000), Arr(<<3>>, <<10000, 25000, 40000>>), Arr(<<2>>, <<10000, 25000>>)}
      [] name = "_equivalent_airspeed" ->
           {Scalar(20000), Arr(<<3>>, <<30000, 20000, 10000>>),
            Arr(<<2, 1>>, <<20000, 10000>>)}
      [] name = "_unitary_reynolds" ->
           {Scalar(10000), Arr(<<3>>, <<10000, 8000, 5000>>)}
      [] name = "_dynamic_pressure" ->
           {Scalar(10000), Arr(<<3>>, <<30000, 20000, 10000>>)}
      [] name = "_impact_pressure" ->
           {Scalar(16907), Scalar(0 - 60000), Arr(<<3>>, <<43679, 42413, 14112>>)}
      [] name = "_calibrated_airspeed" ->
           {Scalar(16102), Arr(<<3>>, <<24980, 24654, 14829>>)}

\* the values the setter of name is called with on atm: an array of impact
\* pressures or of calibrated airspeeds is one taken at the altitudes of an
\* instance made with an array (the setter rejects it where the lengths differ)
Inputs(name) ==
    IF name \in {"_impact_pressure", "_calibrated_airspeed"}
    THEN {v \in Values(name) : Size(v.shape) > 1 => atm._altitude.shape # << >>}
    ELSE Values(name)

Init ==
    /\ \E a \in Altitudes : atm = Atmosphere(a[1], 0, a[2])
    /\ sea = Atmosphere(Scalar(0), 0, TRUE)
    /\ solver = Idle
    /\ last = Returns("init", "none", None, "none", TRUE)
    /\ written = NotWritten
    /\ threads = NoThreads

\* the setter call c of attribute name returns or raises
SetCall(name, value, c) ==
    /\ atm' = c.self
    /\ last' = Returns("set", name, value, c.err, TRUE)
    /\ written' = IF c.err = "none" /\ value # None
                  THEN [NotWritten EXCEPT !.name = name, !.value = value]
                  ELSE NotWritten

\* atm.<name> = value
Set(name, value) ==
    /\ solver.phase = "idle"
    /\ SetCall(name, value, SpeedSetter(name, Call(atm, sea), value))
    /\ UNCHANGED <<sea, solver, threads>>

\* the call self._compute_true_airspeed(parameter_name, value) as it starts:
\* solver_atm = deepcopy(self), shape = np.shape(value), value = np.ravel(value)
_compute_true_airspeed(self, parameter_name) ==
    [Idle EXCEPT !.phase = "solving",
                 !.parameter_name = parameter_name,
                 !.value = Ravel(self[parameter_name]),
                 !.shape = self[parameter_name].shape,
                 !.solver_atm = <<self>>]

\* where the getter call c of attribute name has got to: its return, its
\* exception, or its call of _compute_true_airspeed
GetCall(name, c) ==
    IF c.inverted
    THEN /\ written.inversions < MaxInversions
         /\ solver' = _compute_true_airspeed(c.self,
                          IF c.self._impact_pressure # None THEN "_impact_pressure"
                          ELSE "_calibrated_airspeed")
         /\ written' = [written EXCEPT !.inversions = @ + 1]
         /\ UNCHANGED <<atm, sea, last>>
    ELSE /\ atm' = c.self
         /\ sea' = c.sea
         /\ last' = GetReturns(name, c, TRUE)
         /\ UNCHANGED <<solver, written>>

\* atm.<name>, up to its return or to its call of _compute_true_airspeed
Get(name) ==
    /\ solver.phase = "idle"
    /\ GetCall(name, SpeedGetter(name, Call(atm, sea)))
    /\ UNCHANGED threads

\* a _compute_parameter that reads the parameter without the assignment
\* atm.true_airspeed = np.reshape(tas, shape)
ComputeParameterWithoutSetting(tas, solver_atm, shape, parameter_name) ==
    SpeedGetter(parameter_name, Call(solver_atm, sea))

\* _compute_parameter(tas, atm, shape) for getattr(atm, parameter_name): the call
\* as it ends, the parameter in atm's slot
_compute_parameter(tas, solver_atm, shape, parameter_name) ==
    With(SpeedSetter("_true_airspeed", Call(solver_atm, sea), Reshape(tas, shape)),
         LAMBDA c0 : IF c0.err = "none" THEN SpeedGetter(parameter_name, c0) ELSE c0)

\* an evaluation made on the caller's instance, solver_atm = self without deepcopy
ProbeCallOnCaller(x, c) ==
    /\ atm' = c.self
    /\ sea' = c.sea
    /\ IF c.err # "none"
       THEN /\ solver' = Idle
            /\ last' = Returns("get", "none", None, c.err, TRUE)
       ELSE IF Len(c.self[solver.parameter_name].data) # Len(x.data)
       THEN /\ solver' = Idle
            /\ last' = Returns("get", "none", None, "fsolve", TRUE)
       ELSE /\ solver' = [solver EXCEPT
                             !.solver_atm = <<c.self>>, !.x = x,
                             !.residual = Residual(solver.value,
                                                   Ravel(c.self[solver.parameter_name])),
                             !.nfev = @ + 1]
            /\ UNCHANGED last

\* what fsolve makes of the evaluation c of its function at x: it raises what
\* the function raised, rejects an output that has not the size of x, and
\* otherwise keeps x and the residual
ProbeCall(x, c) ==
    /\ UNCHANGED atm
    /\ sea' = c.sea
    /\ IF c.err # "none"
       THEN /\ solver' = Idle
            /\ last' = Returns("get", "none", None, c.err, TRUE)
       ELSE IF Len(c.self[solver.parameter_name].data) # Len(x.data)
       THEN /\ solver' = Idle
            /\ last' = Returns("get", "none", None, "fsolve", TRUE)
       ELSE /\ solver' = [solver EXCEPT
                             !.solver_atm = <<c.self>>, !.x = x,
                             !.residual = Residual(solver.value,
                                                   Ravel(c.self[solver.parameter_name])),
                             !.nfev = @ + 1]
            /\ UNCHANGED last

\* one evaluation by fsolve of value - _compute_parameter(tas, solver_atm, shape):
\* the first at x0, the others at an iterate of fsolve's choosing
Probe(x) ==
    /\ solver.phase = "solving"
    /\ solver.nfev < MaxProbes
    /\ IF solver.nfev = 0 THEN x = X0(Len(solver.value.data))
       ELSE x \in Iterates(Len(solver.value.data)) /\ ~Converged(solver.residual)
    /\ ProbeCall(x, _compute_parameter(x, solver.solver_atm[1], solver.shape,
                                       solver.parameter_name))
    /\ UNCHANGED <<written, threads>>

\* fsolve returns its last iterate, converged or not, and the true_airspeed
\* getter stores np.reshape(root, shape)
SolveReturn ==
    /\ solver.phase = "solving"
    /\ solver.nfev >= 1
    /\ Converged(solver.residual) \/ solver.nfev = MaxProbes
    /\ atm' = [atm EXCEPT !._true_airspeed = Reshape(solver.x, solver.shape)]
    /\ solver' = [Idle EXCEPT !.phase = "resume",
                              !.converged = Converged(solver.residual)]
    /\ written' = [written EXCEPT !.root = Reshape(solver.x, solver.shape),
                                  !.converged = Converged(solver.residual)]
    /\ UNCHANGED <<sea, last, threads>>

\* the getter call c of attribute name returns or raises
ResumeCall(name, c) ==
    /\ atm' = c.self
    /\ sea' = c.sea
    /\ last' = GetReturns(name, c, solver.converged)

\* the rest of the getter of attribute name, which had read self.true_airspeed
Resume(name) ==
    /\ solver.phase = "resume"
    /\ ResumeCall(name, SpeedGetter(name, Call(atm, sea)))
    /\ solver' = Idle
    /\ UNCHANGED <<written, threads>>

\* atm.<name> for a profile attribute
ProfileRead(name) ==
    /\ solver.phase = "idle"
    /\ atm' = ProfileGetter(name, atm)
    /\ last' = Returns("read", "none", None, "none", TRUE)
    /\ UNCHANGED <<sea, solver, written, threads>>

\* atm.delta_t = dt
SetDeltaT(dt) ==
    /\ solver.phase = "idle"
    /\ atm' = delta_t_setter(atm, dt)
    /\ last' = Returns("delta_t", "_delta_t", Scalar(dt), "none", TRUE)
    /\ UNCHANGED <<sea, solver, written, threads>>

Next ==
    \/ \E name \in SpeedNames : \E value \in Inputs(name) \cup {None} : Set(name, value)
    \/ \E name \in SpeedNames : Get(name)
    \/ \E x \in Iterates(Len(solver.value.data)) \cup {X0(Len(solver.value.data))} : Probe(x)
    \/ SolveReturn
    \/ \E name \in SpeedNames : Resume(name)
    \/ \E name \in ProfileNames : ProfileRead(name)

Spec == Init /\ [][Next]_vars

\* The instance with its temperature offset written after construction: the
\* profile reads, the delta_t setter, and the speed attributes whose getters
\* read the profile, on one instance and with one value each.
ProfileSpeedNames == {"_mach", "_unitary_reynolds"}

InitProfile ==
    /\ atm = Atmosphere(Scalar(30000), 0, TRUE)
    /\ sea = Atmosphere(Scalar(0), 0, TRUE)
    /\ solver = Idle
    /\ last = Returns("init", "none", None, "none", TRUE)
    /\ written = NotWritten
    /\ threads = NoThreads

NextProfile ==
    \/ \E name \in ProfileNames : ProfileRead(name)
    \/ \E dt \in DeltaTs : SetDeltaT(dt)
    \/ \E name \in ProfileSpeedNames : \E value \in {v \in Values(name) : v.shape = << >>} : Set(name, value)
    \/ \E name \in ProfileSpeedNames : Get(name)

SpecProfile == InitProfile /\ [][NextProfile]_vars

\* The impact_pressure getter as a function of mach: mach (or a dynamic
\* pressure from which mach derives) is set to values on both sides of 1, at 1
\* and nan, and impact_pressure is read, np.empty_like returning memory of
\* any content.

\* what the memory np.empty_like returns may hold, Pa
EmptyValues == {0, 101325, NaN}

ImpactSetNames == {"_mach", "_dynamic_pressure"}

\* the values mach and dynamic_pressure are set to; np.sqrt makes nan of a
\* negative dynamic pressure
ImpactValues(name) ==
    CASE name = "_mach" ->
           {Scalar(8000), Scalar(10000), Scalar(15000), Scalar(NaN),
            Arr(<<3>>, <<5000, 10000, 20000>>), Arr(<<3>>, <<10000, 10001, NaN>>),
            Arr(<<2, 3>>, <<5000, 8000, 10000, 10001, 12000, 16000>>)}
      [] name = "_dynamic_pressure" ->
           {Scalar(10000), Scalar(0 - 100)}

\* atm.impact_pressure, np.empty_like returning elements that hold empty
ImpactRead(empty) ==
    /\ solver.phase = "idle"
    /\ GetCall("_impact_pressure",
               impact_pressure([Call(atm, sea) EXCEPT !.empty = empty]))
    /\ UNCHANGED threads

NextImpact ==
    \/ \E name \in ImpactSetNames : \E value \in ImpactValues(name) : Set(name, value)
    \/ \E empty \in EmptyValues : ImpactRead(empty)
    \/ \E name \in {"_pressure", "_speed_of_sound"} : ProfileRead(name)

SpecImpact == Init /\ [][NextImpact]_vars

\* Two threads that share one instance: the writer calls setters, the reader
\* calls the getters of equivalent_airspeed and unitary_reynolds.  A thread
\* runs its call one read or one assignment of an attribute at a time (the
\* interpreter may switch threads between any two of them); where the callers
\* lock (threads.locked) a call starts only while no call is in progress.

\* the attributes in the order _reset_speeds assigns them
ResetOrder == <<"_mach", "_true_airspeed", "_equivalent_airspeed", "_unitary_reynolds",
                "_dynamic_pressure", "_impact_pressure", "_calibrated_airspeed">>

\* the branches of the true_airspeed getter in the order it tests them
DispatchOrder == <<"_mach", "_equivalent_airspeed", "_unitary_reynolds", "_dynamic_pressure",
                   "_impact_pressure", "_calibrated_airspeed">>

WriterNames == {"_mach", "_equivalent_airspeed", "_unitary_reynolds"}

ReaderNames == {"_equivalent_airspeed", "_unitary_reynolds"}

\* the values the writer sets
ThreadValues(name) == {v \in Values(name) : v.shape = << >>}

\* instance s with the seven speed slots of self: what a thread's computation
\* leaves of s (the profile caches it filled) on the shared instance
WithSpeedsOf(s, self) ==
    [s EXCEPT !._mach = self._mach, !._true_airspeed = self._true_airspeed,
              !._equivalent_airspeed = self._equivalent_airspeed,
              !._unitary_reynolds = self._unitary_reynolds,
              !._dynamic_pressure = self._dynamic_pressure,
              !._impact_pressure = self._impact_pressure,
              !._calibrated_airspeed = self._calibrated_airspeed]

\* self with none of the seven speed slots set but the one of name, to value
OnlySet(self, name, value) ==
    [[self EXCEPT !._mach = None, !._true_airspeed = None,
                  !._equivalent_airspeed = None, !._unitary_reynolds = None,
                  !._dynamic_pressure = None, !._impact_pressure = None,
                  !._calibrated_airspeed = None] EXCEPT ![name] = value]

\* the most setter calls the writer makes
MaxWrites == 2

\* a thread may start a call: the callers do not lock, or no call is in progress
MayEnter == ~threads.locked \/ threads.holder = "none"

InitThreads ==
    /\ atm = Atmosphere(Scalar(30000), 0, TRUE)
    /\ sea = Atmosphere(Scalar(0), 0, TRUE)
    /\ solver = Idle
    /\ last = Returns("init", "none", None, "none", TRUE)
    /\ written = NotWritten
    /\ \E locked \in BOOLEAN : threads = [NoThreads EXCEPT !.locked = locked]

\* the writer calls atm.<name> = value
WriterCall(name, value) ==
    /\ threads.writer.pc = "idle"
    /\ threads.writes < MaxWrites
    /\ MayEnter
    /\ threads' = [threads EXCEPT !.holder = "writer", !.writes = @ + 1,
                                   !.writer = [NotCalling EXCEPT !.pc = "reset", !.name = name,
                                                                 !.value = value, !.i = 1]]
    /\ UNCHANGED <<atm, sea, solver, last, written>>

\* one assignment of _reset_speeds
WriterReset ==
    /\ threads.writer.pc = "reset"
    /\ atm' = [atm EXCEPT ![ResetOrder[threads.writer.i]] =
                              _reset_speeds(atm)[ResetOrder[threads.writer.i]]]
    /\ threads' = IF threads.writer.i = Len(ResetOrder)
                   THEN [threads EXCEPT !.writer.pc = "store"]
                   ELSE [threads EXCEPT !.writer.i = @ + 1]
    /\ UNCHANGED <<sea, solver, last, written>>

\* self._<name> = self._adapt_shape(value), and the setter returns
WriterStore ==
    /\ threads.writer.pc = "store"
    /\ atm' = [atm EXCEPT ![threads.writer.name] = _adapt_shape(atm, threads.writer.value)]
    /\ last' = Returns("set", threads.writer.name, threads.writer.value, "none", TRUE)
    /\ written' = [NotWritten EXCEPT !.name = threads.writer.name,
                                      !.value = threads.writer.value]
    /\ threads' = [threads EXCEPT !.holder = "none", !.writer = NotCalling]
    /\ UNCHANGED <<sea, solver>>

\* the reader calls atm.<name>
ReaderCall(name) ==
    /\ threads.reader.pc = "idle"
    /\ MayEnter
    /\ threads' = [threads EXCEPT !.holder = "reader",
                                   !.reader = [NotCalling EXCEPT !.pc = "test", !.name = name]]
    /\ UNCHANGED <<atm, sea, solver, last, written>>

\* the reader's call raises err
ReaderRaises(err) ==
    /\ last' = Returns("get", threads.reader.name, None, err, TRUE)
    /\ threads' = [threads EXCEPT !.holder = "none", !.reader = NotCalling]

\* if self._<name> is None and ...: the test of the slot
ReaderTest ==
    /\ threads.reader.pc = "test"
    /\ threads' = IF atm[threads.reader.name] # None
                   THEN [threads EXCEPT !.reader.pc = "return"]
                   ELSE [threads EXCEPT !.reader.pc = "tas_test", !.reader.ret = "guard"]
    /\ UNCHANGED <<atm, sea, solver, last, written>>

\* the true_airspeed getter: if self._true_airspeed is None
ReaderTasTest ==
    /\ threads.reader.pc = "tas_test"
    /\ threads' = IF atm._true_airspeed # None
                   THEN [threads EXCEPT !.reader.pc = "tas_return"]
                   ELSE [threads EXCEPT !.reader.pc = "tas_branch"]
    /\ UNCHANGED <<atm, sea, solver, last, written>>

\* the first attribute of DispatchOrder, from position i, that is not None
RECURSIVE Dispatch(_, _)
Dispatch(self, i) ==
    IF i > Len(DispatchOrder) THEN "none"
    ELSE IF self[DispatchOrder[i]] # None THEN DispatchOrder[i]
    ELSE Dispatch(self, i + 1)

\* the true_airspeed getter: the tests if self._mach is not None, elif ...
ReaderTasBranch ==
    /\ threads.reader.pc = "tas_branch"
    /\ threads' = IF Dispatch(atm, 1) = "none"
                   THEN [threads EXCEPT !.reader.pc = "tas_return"]
                   ELSE [threads EXCEPT !.reader.pc = "tas_compute",
                                        !.reader.branch = Dispatch(atm, 1)]
    /\ UNCHANGED <<atm, sea, solver, last, written>>

\* the reader has computed value in the call c made on its own view of the
\* instance: the profile caches c filled are on the shared instances
ReaderComputed(c, value, pc) ==
    /\ atm' = WithSpeedsOf(c.self, atm)
    /\ sea' = c.sea
    /\ threads' = [threads EXCEPT !.reader.pc = pc, !.reader.value = value]
    /\ UNCHANGED last

\* the true_airspeed getter: the right-hand side of its branch, which reads
\* the attribute again (None by now if the writer has reset it)
ReaderTasCompute ==
    /\ threads.reader.pc = "tas_compute"
    /\ IF atm[threads.reader.branch] = None
       THEN ReaderRaises("TypeError") /\ UNCHANGED <<atm, sea>>
       ELSE With(true_airspeed(Call(OnlySet(atm, threads.reader.branch,
                                            atm[threads.reader.branch]), sea)),
                 LAMBDA c : ReaderComputed(c, c.self._true_airspeed, "tas_store"))
    /\ UNCHANGED <<solver, written>>

\* the true_airspeed getter: self._true_airspeed = ...
ReaderTasStore ==
    /\ threads.reader.pc = "tas_store"
    /\ atm' = [atm EXCEPT !._true_airspeed = threads.reader.value]
    /\ threads' = [threads EXCEPT !.reader.pc = "tas_return"]
    /\ UNCHANGED <<sea, solver, last, written>>

\* the true_airspeed getter: return self._true_airspeed, to the test
\* self.true_airspeed is not None or to the right-hand side of the assignment
ReaderTasReturn ==
    /\ threads.reader.pc = "tas_return"
    /\ threads' = IF threads.reader.ret = "compute"
                   THEN [threads EXCEPT !.reader.pc = "compute",
                                        !.reader.tas = atm._true_airspeed]
                   ELSE IF atm._true_airspeed = None
                   THEN [threads EXCEPT !.reader.pc = "return"]
                   ELSE [threads EXCEPT !.reader.pc = "tas_test", !.reader.ret = "compute"]
    /\ UNCHANGED <<atm, sea, solver, last, written>>

\* self.true_airspeed / ..., on the true airspeed the second read returned
ReaderCompute ==
    /\ threads.reader.pc = "compute"
    /\ IF threads.reader.tas = None
       THEN ReaderRaises("TypeError") /\ UNCHANGED <<atm, sea>>
       ELSE With(SpeedGetter(threads.reader.name,
                             Call(OnlySet(atm, "_true_airspeed", threads.reader.tas), sea)),
                 LAMBDA c : ReaderComputed(c, c.self[threads.reader.name], "store"))
    /\ UNCHANGED <<solver, written>>

\* self._<name> = ...
ReaderStore ==
    /\ threads.reader.pc = "store"
    /\ atm' = [atm EXCEPT ![threads.reader.name] = threads.reader.value]
    /\ threads' = [threads EXCEPT !.reader.pc = "return"]
    /\ UNCHANGED <<sea, solver, last, written>>

\* return self._<name>
ReaderReturn ==
    /\ threads.reader.pc = "return"
    /\ last' = Returns("get", "none", None, "none", TRUE)
    /\ threads' = [threads EXCEPT !.holder = "none", !.reader = NotCalling]
    /\ UNCHANGED <<atm, sea, solver, written>>

NextThreads ==
    \/ \E name \in WriterNames : \E value \in ThreadValues(name) : WriterCall(name, value)
    \/ WriterReset
    \/ WriterStore
    \/ \E name \in ReaderNames : ReaderCall(name)
    \/ ReaderTest
    \/ ReaderTasTest
    \/ ReaderTasBranch
    \/ ReaderTasCompute
    \/ ReaderTasStore
    \/ ReaderTasReturn
    \/ ReaderCompute
    \/ ReaderStore
    \/ ReaderReturn

SpecThreads == InitThreads /\ [][NextThreads]_vars

\* ------------------------------------------- the inversion, run to its end
\*
\* The calls that reach _compute_true_airspeed, with the scheduling of the one
\* thread that makes them: fsolve, once called, goes on evaluating its function
\* until it returns or raises, and the getter that called it then runs to its
\* return.

\* the attributes whose branch of the true_airspeed getter calls the inversion
InversionSetNames == {"_impact_pressure", "_calibrated_airspeed"}

\* the arguments fsolve may evaluate its function at
ProbeArguments == Iterates(Len(solver.value.data)) \cup {X0(Len(solver.value.data))}

NextInversion ==
    \/ \E name \in InversionSetNames : \E value \in Inputs(name) : Set(name, value)
    \/ \E name \in SpeedNames : Get(name)
    \/ \E x \in ProbeArguments : Probe(x)
    \/ SolveReturn
    \/ \E name \in SpeedNames : Resume(name)

\* fsolve is about to evaluate its function: the guard of Probe
ProbeEnabled ==
    /\ solver.phase = "solving"
    /\ solver.nfev < MaxProbes
    /\ solver.nfev = 0 \/ ~Converged(solver.residual)

\* Weak fairness of the three steps that follow the call of the inversion.  For
\* Probe and Resume, WF_vars(A) is written out as []<>~ENABLED <<A>>_vars \/
\* []<><<A>>_vars with the guard of the action for ENABLED <<A>>_vars: given its
\* guard, each of the two has a next state, and the step changes solver.
InversionRuns ==
    /\ WF_vars(SolveReturn)
    /\ ([]<>~ProbeEnabled) \/ ([]<><<\E x \in ProbeArguments : Probe(x)>>_vars)
    /\ \/ []<>(solver.phase # "resume")
       \/ []<><<\E name \in SpeedNames : Resume(name)>>_vars

SpecInversion == Init /\ [][NextInversion]_vars /\ InversionRuns

\* ------------------------------------------------------------- properties

\* a setter call of a value that is not None has just returned without raising
JustSet ==
    /\ solver.phase = "idle"
    /\ last.op = "set"
    /\ last.err = "none"
    /\ last.arg # None

\* C1, single-writer rule: in every reachable state that a successful
\* atm.X = v (v not None) has just produced, the slot of X holds v (each of its
\* elements is the element of v that numpy broadcasting puts there) and the six
\* other speed slots are None, whatever was set or cached before.
SingleWriterRule ==
    JustSet =>
        /\ atm[last.name] # None
        /\ CanBroadcastTo(last.arg.shape, atm[last.name].shape)
        /\ atm[last.name] = BroadcastTo(last.arg, atm[last.name].shape)
        /\ \A other \in SpeedNames \ {last.name} : atm[other] = None

\* C1 happens: a mach array has just been set on an instance whose earlier
\* speed reads went as far as the sea-level density and pressure (equivalent and
\* calibrated airspeed were derived from earlier values)
SingleWriterRuleWitness ==
    /\ JustSet
    /\ last.name = "_mach"
    /\ atm._mach.shape = <<2, 3>>
    /\ sea._density # None
    /\ sea._pressure # None

\* a write has stored a value and no call is in progress
Written == solver.phase = "idle" /\ written.name # "none"

\* the value the last write stored in its slot
Stored == _adapt_shape(atm, written.value)

\* the instance with nothing in its speed slots but what comes from the last
\* write: the value stored and, where true airspeed takes the inversion, the
\* root the inversion returned for it
AsWritten ==
    IF written.name \in {"_impact_pressure", "_calibrated_airspeed"}
    THEN [OnlySet(atm, written.name, Stored) EXCEPT !._true_airspeed = written.root]
    ELSE OnlySet(atm, written.name, Stored)

\* getter calls a and b of attribute name end alike: the same exception, the
\* same call of the inversion, or the same value returned
SameReturn(name, a, b) ==
    /\ a.err = b.err
    /\ a.inverted = b.inverted
    /\ (a.err = "none" /\ ~a.inverted) => a.self[name] = b.self[name]

\* C2, no stale values: in every state reached by setter and getter calls the
\* last of whose writes is atm.X = v, each of the seven getters returns what it
\* returns on an instance that holds nothing but v (and the root computed from
\* v): nothing set or cached before the write shows in any value returned.
NoStaleValues ==
    Written =>
        \A name \in SpeedNames :
            SameReturn(name, SpeedGetter(name, Call(atm, sea)),
                       SpeedGetter(name, Call(AsWritten, sea)))

\* C2 happens: getters have run after a write of mach (true airspeed is
\* cached) that followed a write of equivalent airspeed whose value had been
\* converted (only that conversion fills the sea-level density)
NoStaleValuesWitness ==
    /\ Written
    /\ written.name = "_mach"
    /\ last.op = "get"
    /\ atm._true_airspeed # None
    /\ atm._unitary_reynolds # None
    /\ atm._equivalent_airspeed = None
    /\ sea._density # None

\* the speed attributes whose getters assign their slot only while it is None
GuardedNames == {"_mach", "_true_airspeed", "_equivalent_airspeed", "_unitary_reynolds"}

\* x is y within one per cent (nan only being nan): the tolerance within which
\* the truncating arithmetic of this model follows the floats
Near(x, y) ==
    \/ x = y
    \/ x # NaN /\ y # NaN /\ 100 * Abs(x - y) <= Abs(y)

\* array a is array b: the same shape, and each element within the tolerance
SameValue(a, b) ==
    /\ a.shape = b.shape
    /\ Len(a.data) = Len(b.data)
    /\ \A k \in 1..Len(a.data) : Near(a.data[k], b.data[k])

\* the getter call c of attribute name returns value
ReturnsValue(name, c, value) == c.err = "none" /\ ~c.inverted /\ c.self[name] = value

\* the slot of name holds what was stored or what the getter call c of name,
\* which recomputes it from mach, returns; and where the inversion, if it was
\* called, had converged, each element of the slot is, within the tolerance,
\* the element of the stored value that broadcasting puts there
StoredOrRecomputed(name, c) ==
    /\ \/ atm[name] = Stored
       \/ c.err = "none" /\ ~c.inverted /\ atm._mach # None /\ atm[name] = c.self[name]
    /\ written.converged =>
           /\ CanBroadcastTo(Stored.shape, atm[name].shape)
           /\ SameValue(atm[name], BroadcastTo(Stored, atm[name].shape))

AuthoritativeKeptWitness ==
    /\ Written
    /\ written.name = "_mach"
    /\ atm._mach = Stored
    /\ \A name \in SpeedNames : atm[name] # None

Compatible(s, t) ==
    \A i \in 1..Min(Len(s), Len(t)) :
        \/ s[Len(s) + 1 - i] = t[Len(t) + 1 - i]
        \/ s[Len(s) + 1 - i] = 1
        \/ t[Len(t) + 1 - i] = 1

\* a setter call of a value that is not None has just returned or raised
JustCalledSetter == solver.phase = "idle" /\ last.op = "set" /\ last.arg # None

\* C4, shape validation at the setter: a setter call with a value of more than
\* one element whose shape does not broadcast against the altitude shape raises
\* RuntimeError and stores nothing; a call with any other value stores it; so
\* no slot ever holds a value of an incompatible shape, and no getter call
\* raises the error later.
ShapeValidatedAtSetter ==
    /\ JustCalledSetter =>
           IF Size(last.arg.shape) > 1 /\ ~Compatible(last.arg.shape, atm._altitude.shape)
           THEN last.err = "RuntimeError" /\ \A name \in SpeedNames : atm[name] = None
           ELSE last.err = "none" /\ atm[last.name] # None
    /\ \A name \in SpeedNames :
           atm[name] # None => Compatible(atm[name].shape, atm._altitude.shape)
    /\ last.op = "get" => last.err # "RuntimeError"

\* C4 happens: a true airspeed of shape (2,) has just been refused by an
\* instance of altitude shape (3,), which had a value before
ShapeRejectedWitness ==
    /\ JustCalledSetter
    /\ last.err = "RuntimeError"
    /\ last.arg.shape = <<2>>
    /\ atm._altitude.shape = <<3>>
    /\ atm._speed_of_sound # None

\* the getter call c of attribute name returns a value of this shape (or is at
\* its call of the inversion)
HasShape(name, c, shape) == c.inverted \/ (c.err = "none" /\ c.self[name].shape = shape)

\* C5, output shape contract: after atm.X = value every getter returns without
\* raising, and what it returns has the shape of value broadcast against the
\* altitude.
OutputShapeContract ==
    /\ Written =>
           \A name \in SpeedNames :
               HasShape(name, SpeedGetter(name, Call(atm, sea)),
                        BroadcastShape(written.value.shape, atm._altitude.shape))
    /\ last.op = "get" => last.err = "none"

\* no speed attribute of atm is set, and no call is in progress
NothingSet == solver.phase = "idle" /\ \A name \in SpeedNames : atm[name] = None

\* the getter call c of attribute name returns None, having raised nothing,
\* called no inversion and set no slot
ReturnsNoValue(name, c) ==
    /\ c.err = "none"
    /\ ~c.inverted
    /\ c.self[name] = None
    /\ \A other \in SpeedNames : c.self[other] = None

\* C6, an undefined quantity is a value: on an instance none of whose speed
\* attributes is set (new, or after a setter call with None) each of the seven
\* getters returns None without raising and without calling the inversion, and
\* all seven slots stay None.
NoValueWithoutError ==
    /\ NothingSet =>
           \A name \in SpeedNames : ReturnsNoValue(name, SpeedGetter(name, Call(atm, sea)))
    /\ written.name = "none" => NothingSet
    /\ (written.name = "none" /\ last.op = "get") => last.err = "none"

\* C6 happens: a getter has returned on an instance that had a value (its
\* equivalent airspeed was converted) and was then assigned None
NoValueWitness ==
    /\ NothingSet
    /\ last.op = "get"
    /\ last.err = "none"
    /\ sea._density # None

\* C7, non-convergence is surfaced: when the inversion has not converged, the
\* getter that called it raises, and the iterate fsolve stopped at is neither
\* returned nor put in the true_airspeed slot.
NonConvergenceSurfaced ==
    /\ (solver.phase = "resume" /\ ~solver.converged) => atm._true_airspeed = None
    /\ (last.op = "get" /\ ~last.converged) => last.err # "none"

\* C8, solver sandboxing: the inversion starts on a copy of the instance as it
\* is; while it runs no speed slot of the caller changes; and when it returns
\* the caller differs only by its true_airspeed slot, unset before and now the
\* root, the slot of the quantity that was set still holding the value stored.
SolverSandboxed ==
    [][/\ (solver.phase = "idle" /\ solver'.phase = "solving") =>
              /\ solver'.solver_atm = <<atm>>
              /\ atm' = atm
       /\ (solver.phase = "solving" /\ solver'.phase # "resume") =>
              \A name \in SpeedNames : atm'[name] = atm[name]
       /\ (solver.phase = "solving" /\ solver'.phase = "resume") =>
              /\ atm._true_airspeed = None
              /\ atm' = [atm EXCEPT !._true_airspeed = Reshape(solver.x, solver.shape)]
              /\ solver.parameter_name = written.name
              /\ atm'[written.name] = _adapt_shape(atm, written.value)
      ]_vars

\* C8 happens: the inversion has returned a root for the calibrated airspeed
\* that was set, after two evaluations on its copy
SolverSandboxedWitness ==
    /\ solver.phase = "resume"
    /\ written.name = "_calibrated_airspeed"
    /\ atm._true_airspeed # None
    /\ atm._true_airspeed = written.root
    /\ atm._calibrated_airspeed = _adapt_shape(atm, written.value)

\* C9, atmospheric state is immutable after construction: every profile value
\* an instance has memoized is the profile function of its altitude and
\* temperature offset as they are now.
AtmosphericStateImmutable ==
    \A name \in ProfileNames :
        atm[name] # None =>
            atm[name] = ProfileGetter(name, Atmosphere(atm._altitude, atm._delta_t, FALSE))[name]

\* C10, profile memoization: a profile cache that is set is never changed; each
\* profile quantity of an instance is computed at most once, when its cache is
\* first filled; and no speed setter call changes a profile cache.
ProfileMemoized ==
    [][/\ \A name \in ProfileNames :
              /\ atm[name] # None => atm'[name] = atm[name]
              /\ atm'.ncompute[name] = (IF atm'[name] # None THEN 1 ELSE 0)
              /\ sea'.ncompute[name] = (IF sea'[name] # None THEN 1 ELSE 0)
       /\ (last'.op = "set" /\ Set(last'.name, last'.arg))
              => \A name \in ProfileNames : atm'[name] = atm[name]
      ]_vars

\* C10 happens: a setter has just stored a value on an instance whose six
\* profile quantities had all been computed, once each
ProfileMemoizedWitness ==
    /\ JustSet
    /\ \A name \in ProfileNames : atm[name] # None /\ atm.ncompute[name] = 1

\* what the getter call c of dynamic_pressure leaves in the slot, m being the
\* call of the mach getter it starts with: 0.7 * mach**2 * pressure where mach
\* returned a value, and what the slot held where mach returned None
RecomputedFromMach(c, m) ==
    IF Returned(m) /\ m.self._mach # None
    THEN /\ c.err = "none"
         /\ c.self._dynamic_pressure = Map2(QOfMach, m.self._mach, pressure(m.self)._pressure)
    ELSE c.self._dynamic_pressure = atm._dynamic_pressure

\* C11, dynamic_pressure is never a stable cache: in every state in which a
\* getter may run (or resume after the inversion), a call of the
\* dynamic_pressure getter where mach is resolvable leaves in the slot
\* 0.7 * mach**2 * pressure computed in that call, whatever the slot held, the
\* value that was set included; where mach is not resolvable the slot is left
\* as it is and returned.
DynamicPressureNeverStable ==
    solver.phase # "solving" =>
        RecomputedFromMach(dynamic_pressure(Call(atm, sea)), mach(Call(atm, sea)))

\* C11 happens: dynamic_pressure was set as a scalar on an instance of three
\* altitudes, a getter has derived mach from it, and the slot now holds the
\* three values recomputed from mach in place of the scalar
DynamicPressureNeverStableWitness ==
    /\ solver.phase = "idle"
    /\ written.name = "_dynamic_pressure"
    /\ written.value.shape = << >>
    /\ last.op = "get"
    /\ atm._mach # None
    /\ atm._dynamic_pressure.shape = <<3>>
    /\ atm._dynamic_pressure = Map2(QOfMach, atm._mach, atm._pressure)
\* the quantities from which the true_airspeed getter computes in closed form
ClosedFormNames == {"_mach", "_equivalent_airspeed", "_unitary_reynolds", "_dynamic_pressure"}

\* the quantities from which it calls _compute_true_airspeed
InvertedNames == {"_impact_pressure", "_calibrated_airspeed"}

\* the call c of the true_airspeed getter, made while the slot is None, goes by
\* the quantity that was set: a value in closed form, or the inversion
DispatchedBySetQuantity(c) ==
    /\ written.name \in ClosedFormNames => (Returned(c) /\ c.self._true_airspeed # None)
    /\ written.name \in InvertedNames <=> c.inverted

\* C12, hub dispatch: a read of true_airspeed while its slot is None computes
\* in closed form where mach, equivalent_airspeed, unitary_reynolds or
\* dynamic_pressure was set and calls _compute_true_airspeed exactly where
\* impact_pressure or calibrated_airspeed was; the inversion runs only on such
\* a read; while true_airspeed is cached no getter calls it; and it is called
\* at most once between two writes.
HubDispatch ==
    /\ (Written /\ atm._true_airspeed = None) =>
           DispatchedBySetQuantity(true_airspeed(Call(atm, sea)))
    /\ solver.phase = "solving" =>
           /\ atm._true_airspeed = None
           /\ written.name \in InvertedNames
           /\ solver.parameter_name = written.name
    /\ (solver.phase # "solving" /\ atm._true_airspeed # None) =>
           \A name \in SpeedNames : ~SpeedGetter(name, Call(atm, sea)).inverted
    /\ written.inversions <= 1
\* element k of the impact pressure is the formula of the regime of element k
\* of mach, on the element k of p, the pressure broadcast to the shape of mach
RegimeFormulaAt(k, p) ==
    \/ /\ idx_subsonic(atm._mach.data[k])
       /\ atm._impact_pressure.data[k] =
              SubsonicImpactPressure(atm._mach.data[k], p.data[k])
    \/ /\ idx_supersonic(atm._mach.data[k])
       /\ atm._impact_pressure.data[k] =
              SupersonicImpactPressure(atm._mach.data[k], p.data[k])

\* C13, impact-pressure regime split: for every mach the getter returns a
\* result; each element of mach is in exactly one of the two masks, mach = 1
\* in the subsonic one; and each element of the result is the formula of its
\* mask, subsonic or Rayleigh, on the pressure element at the same position
\* after broadcasting the pressure to the shape of mach.
ImpactRegimeSplit ==
    /\ last.op = "get" => last.err = "none"
    /\ atm._impact_pressure # None =>
           /\ atm._mach # None
           /\ atm._impact_pressure.shape = atm._mach.shape
           /\ CanBroadcastTo(atm._pressure.shape, atm._mach.shape)
           /\ \A k \in 1..Len(atm._mach.data) :
                  /\ idx_subsonic(atm._mach.data[k]) # idx_supersonic(atm._mach.data[k])
                  /\ RegimeFormulaAt(k, BroadcastTo(atm._pressure, atm._mach.shape))
\* the low-speed value of impact pressure ip, by the sea-level values of call c
LowSpeedOf(ip, c) == CasLowSpeed(ip, c.sea._speed_of_sound.data[1], c.sea._pressure.data[1])

\* in the call c of the calibrated_airspeed getter the low-speed form decides
\* for each element: fsolve is given the impact pressures whose low-speed
\* value exceeds the sea-level speed of sound and no other, their elements of
\* the result are the root of Gracey's equation, and the other elements are the
\* low-speed values
SplitByLowSpeed(c) ==
    /\ c.high_speed.impact_pressure =
           SelectSeq(c.self._impact_pressure.data,
                     LAMBDA ip : idx_high_speed(LowSpeedOf(ip, c), c.sea._speed_of_sound.data[1]))
    /\ Len(c.high_speed.x0) = Len(c.high_speed.impact_pressure)
    /\ c.self._calibrated_airspeed.shape = c.self._impact_pressure.shape
    /\ \A k \in 1..Len(c.self._impact_pressure.data) :
           c.self._calibrated_airspeed.data[k] =
               IF idx_high_speed(LowSpeedOf(c.self._impact_pressure.data[k], c),
                                 c.sea._speed_of_sound.data[1])
               THEN CasHighSpeed(c.self._impact_pressure.data[k],
                                 c.sea._speed_of_sound.data[1], c.sea._pressure.data[1])
               ELSE LowSpeedOf(c.self._impact_pressure.data[k], c)

\* fsolve is started, in call c, from the low-speed values of its elements
StartedFromEstimate(c) ==
    \A k \in 1..Len(c.high_speed.x0) :
        c.high_speed.x0[k] = LowSpeedOf(c.high_speed.impact_pressure[k], c)

\* fsolve is started, in call c, from the sea-level speed of sound
StartedFromSpeedOfSound(c) ==
    \A k \in 1..Len(c.high_speed.x0) : c.high_speed.x0[k] = c.sea._speed_of_sound.data[1]

\* the call c of a getter has returned a calibrated airspeed
ReturnedCas(c) == Returned(c) /\ c.self._calibrated_airspeed # None

\* C14 as stated, calibrated-airspeed regime split: the low-speed form is
\* computed for every element, Gracey's equation is solved for the elements
\* whose low-speed value exceeds the sea-level speed of sound and only those,
\* the solver starting from their low-speed values, and the other elements keep
\* the low-speed value.
CasRegimeSplit ==
    solver.phase # "solving" =>
        With(calibrated_airspeed(Call(atm, sea)), LAMBDA c :
            ReturnedCas(c) => (SplitByLowSpeed(c) /\ StartedFromEstimate(c)))

\* C14 as the code has it: the same split, the solver starting from the
\* sea-level speed of sound for each of the elements it is given.
CasRegimeSplitFromSpeedOfSound ==
    solver.phase # "solving" =>
        With(calibrated_airspeed(Call(atm, sea)), LAMBDA c :
            ReturnedCas(c) => (SplitByLowSpeed(c) /\ StartedFromSpeedOfSound(c)))

\* C14 happens: the calibrated airspeed has been read for mach 1, 1.5 and 2 at
\* 0, 1000 and 35000 ft, two elements over the sea-level speed of sound (the
\* solver's) and one under it (the low-speed value)
CasRegimeSplitWitness ==
    /\ solver.phase = "idle"
    /\ last.op = "get"
    /\ written.name = "_mach"
    /\ atm._calibrated_airspeed # None
    /\ atm._calibrated_airspeed.shape = <<3>>
    /\ sea._speed_of_sound # None
    /\ Cardinality({k \in 1..3 : atm._calibrated_airspeed.data[k] > sea._speed_of_sound.data[1]}) = 2
\* SEA_LEVEL_ATMOSPHERE as the module makes it
SeaLevelAsMade == Atmosphere(Scalar(0), 0, TRUE)

Rejected == solver.phase = "idle" /\ last.op = "set" /\ last.err = "RuntimeError"

\* C17, state after a rejected write: when a setter call raises the shape
\* error all seven speed slots are None, whatever was set or cached before, and
\* each of the seven getters returns None; and from a state in which no value
\* is written, the only step after which a slot holds a value is a setter call
\* that stored one.
RejectedWriteClears ==
    [][/\ Rejected' =>
              /\ \A name \in SpeedNames : atm'[name] = None
              /\ \A name \in SpeedNames :
                     ReturnsNoValue(name, SpeedGetter(name, Call(atm', sea')))
       /\ (written.name = "none" /\ \E name \in SpeedNames : atm'[name] # None) =>
              (last'.op = "set" /\ last'.err = "none" /\ last'.arg # None)]_vars

\* C17 happens: a Mach number of three elements has been refused by an
\* instance of altitude shape (2,) whose unitary Reynolds number had been set
\* and read (its kinematic viscosity is cached)
RejectedWriteWitness ==
    /\ Rejected
    /\ last.name = "_mach"
    /\ atm._altitude.shape = <<2>>
    /\ atm._kinematic_viscosity # None
    /\ \A name \in SpeedNames : atm[name] = None


SetOthers == {name \in SpeedNames \ {"_true_airspeed"} : atm[name] # None}

\* the getters that read self.mach and not self.true_airspeed
FromMachNames == {"_dynamic_pressure", "_impact_pressure", "_calibrated_airspeed"}

ProbeNotNested(c0, c) ==
    /\ c0.err = "none"
    /\ c0.self._true_airspeed # None
    /\ ~c.inverted
    /\ c.self._true_airspeed # None

\* every evaluation fsolve may make next on the working copy
ProbesNotNested ==
    \A x \in ProbeArguments :
        ProbeNotNested(
            SpeedSetter("_true_airspeed", Call(solver.solver_atm[1], sea),
                        Reshape(x, solver.shape)),
            _compute_parameter(x, solver.solver_atm[1], solver.shape,
                               solver.parameter_name))

\* C19, no nested inversion: while _compute_true_airspeed runs, every
\* evaluation of fsolve's function sets true_airspeed on the working copy and
\* then reads the parameter from it without reaching _compute_true_airspeed
\* again, so there is never more than the one working copy; and, fsolve making
\* at most MaxProbes evaluations, the read that called the inversion returns or
\* raises.
NoNestedInversion ==
    /\ [](solver.phase = "solving" => ProbesNotNested)
    /\ [](Len(solver.solver_atm) <= 1)
    /\ (solver.phase = "solving" ~> solver.phase = "idle")

\* C19 happens: fsolve has made a second evaluation on the working copy of an
\* instance whose calibrated airspeed is written; the copy holds the iterate
\* as its true airspeed and the calibrated airspeed computed from it, and the
\* instance itself has no true airspeed yet
NoNestedInversionWitness ==
    /\ solver.phase = "solving"
    /\ solver.parameter_name = "_calibrated_airspeed"
    /\ solver.nfev >= 2
    /\ solver.solver_atm[1]._true_airspeed = Reshape(solver.x, solver.shape)
    /\ solver.solver_atm[1]._calibrated_airspeed # None
    /\ atm._true_airspeed = None

\* no call is in progress on either thread, and a write has stored a value
Quiescent ==
    /\ threads.writer.pc = "idle"
    /\ threads.reader.pc = "idle"
    /\ written.name # "none"

\* the slot of name holds something else than what its getter derives from
\* the value last written
DerivedFromOverwritten(name) ==
    /\ atm[name] # None
    /\ atm[name] # SpeedGetter(name, Call(AsWritten, sea)).self[name]

\* a cached slot holds a value derived from an overwritten quantity, next to
\* the value last written
StaleNextToWritten ==
    /\ atm[written.name] = Stored
    /\ \E name \in SpeedNames \ {written.name} : DerivedFromOverwritten(name)

\* C16, locking is sufficient: where every getter and setter call of the two
\* threads runs under one lock, no call raises and, whenever no call is in
\* progress, every slot that is set holds the value written or a value derived
\* from it.  (Without the lock the stale state is reached: the witness.)
LockingIsSufficient ==
    threads.locked =>
        /\ last.err = "none"
        /\ Quiescent => \A name \in SpeedNames :
                            atm[name] = None \/ ~DerivedFromOverwritten(name)

\* C16, unsynchronised sharing is unsafe: without a lock, a setter call of the
\* writer interleaved with a getter call of the reader has left, next to the
\* value just written, a slot derived from the quantity it overwrote
UnsynchronisedStaleWitness ==
    /\ ~threads.locked
    /\ Quiescent
    /\ StaleNextToWritten
====
